---- MODULE Spec2Model ----
(***************************************************************************)
(* A model of gplately's time-stepped point reconstruction engine          *)
(* (ReconstructByTopologies) and of its kinematic collision policy         *)
(* (DefaultCollision), src/gplately/reconstruction.py.                     *)
(*                                                                         *)
(* Representation.                                                         *)
(*   - Times are integers (Ma).  float('inf') / float('-inf') are the      *)
(*     numbers PosInf / NegInf, far outside every time of the model.       *)
(*   - Python's None is  None (-1)  where the value is a number (a plate   *)
(*     ID, a cached time),  NoPoint (<<>>)  in the point arrays,           *)
(*     NoBoundary (<<>>)  in the boundary arrays and  <<>>  for an omitted *)
(*     optional argument (a given one is the 1-tuple <<value>>).           *)
(*   - A rotation returned by RotationModel.get_rotation(to, pid, from) is *)
(*     the tuple <<model, to, pid, from>>; a position is the seed followed *)
(*     by the rotations applied to it, in order, so that  rotation * point *)
(*     is Append(point, rotation).                                         *)
(*   - A resolved boundary is <<plate id, sub-segments>>, a sub-segment is *)
(*     <<feature type, distance in km of the located point to it>>.        *)
(***************************************************************************)
EXTENDS Integers, Sequences, FiniteSets, TLC

VARIABLES
    args,     \* the arguments of the last ReconstructByTopologies(...) call
    engine,   \* the attributes ReconstructByTopologies.__init__ sets
    run,      \* the attributes begin_reconstruction / reconstruct_to_next_time set
    policy,   \* the DefaultCollision instance (thresholds and velocity cache)
    call,     \* the last call of the policy: its arguments and its verdict
    trace,    \* the plate IDs resolved for the points at each sample time so far
    history   \* every (constructor arguments, value returned by reconstruct())

vars == <<args, engine, run, policy, call, trace, history>>

----------------------------------------------------------------------------
(* Bounds of the model *)

MaxTime == 3
\* points x time steps of an engine run
MaxWork == 4
\* continent_deletion_count of a ContinentCollision called outside an engine
MaxDeletionCount == 2

(* Program constants *)

None == -1
PosInf == 1000
NegInf == -1000
EpsInverse == 1000000
DefaultVelocityThreshold == 7
DefaultDistanceThreshold == 10

NoPoint == << >>
NoBoundary == << >>
NoRun == [begun |-> FALSE]
NoCall == [made |-> FALSE]

----------------------------------------------------------------------------
(* Arithmetic *)

Abs(x) == IF x < 0 THEN -x ELSE x

\* math.floor(p / q) for integers p, q with q # 0
Floor(p, q) == IF q > 0 THEN p \div q ELSE (-p) \div (-q)

Range(s) == {s[k] : k \in DOMAIN s}

Min(S) == CHOOSE m \in S : \A y \in S : m <= y

----------------------------------------------------------------------------
(* ReconstructByTopologies.__init__ *)

\* the sign of the time step: backward (negative) when begin > end
SignedTimeStepUnsigned(begin, end, interval) == interval

SignedTimeStep(begin, end, interval) ==
    IF begin > end THEN -interval ELSE interval

\* 1 + int(math.floor(1e-6 + float(end - begin) / step)):
\* 1e-6 + n / step  =  (n * 10^6 + step) / (step * 10^6)
CountTimes(begin, end, step) ==
    1 + Floor((end - begin) * EpsInverse + step, step * EpsInverse)

IntervalCheck(interval) == interval <= 0

LengthMismatchNever(opt, num_points) == FALSE

\* an optional per-point array that is given with the wrong length
LengthMismatch(opt, num_points) ==
    opt # << >> /\ Len(opt[1]) # num_points

OrDefault(opt, num_points, default) ==
    IF opt = << >> THEN [k \in 1..num_points |-> default] ELSE opt[1]

ReconstructByTopologies(a) ==
    LET begin == a.reconstruction_begin_time
        end == a.reconstruction_end_time
        interval == a.reconstruction_time_interval
        num_points == Len(a.points)
        step0 == SignedTimeStep(begin, end, interval)
        count == CountTimes(begin, end, step0)
        step == IF count = 1 THEN end - begin ELSE step0
    IN  IF IntervalCheck(interval)
        THEN [phase |-> "raised",
              error |-> "'reconstruction_time_interval' must be positive."]
        ELSE IF LengthMismatch(a.point_begin_times, num_points)
        THEN [phase |-> "raised",
              error |-> "Length of 'point_begin_times' must match length of 'points'."]
        ELSE IF LengthMismatch(a.point_end_times, num_points)
        THEN [phase |-> "raised",
              error |-> "Length of 'point_end_times' must match length of 'points'."]
        ELSE IF LengthMismatch(a.point_plate_ids, num_points)
        THEN [phase |-> "raised",
              error |-> "Length of 'point_plate_ids' must match length of 'points'."]
        ELSE [phase |-> "constructed",
              rotation_model |-> a.rotation_model,
              topology_features |-> a.topology_features,
              reconstruction_begin_time |-> begin,
              reconstruction_end_time |-> end,
              reconstruction_time_step |-> step,
              num_times |-> IF count = 1 THEN 2 ELSE count,
              reconstruction_time_interval |-> Abs(step),
              last_time_index |-> (IF count = 1 THEN 2 ELSE count) - 1,
              points |-> a.points,
              num_points |-> num_points,
              point_begin_times |-> OrDefault(a.point_begin_times, num_points, PosInf),
              point_end_times |-> OrDefault(a.point_end_times, num_points, NegInf),
              point_plate_ids |-> OrDefault(a.point_plate_ids, num_points, 0),
              detect_collisions |-> a.detect_collisions]

\* engine = ReconstructByTopologies(a)
Construct(a) ==
    /\ engine.phase = "new"
    /\ args' = a
    /\ engine' = ReconstructByTopologies(a)
    /\ UNCHANGED <<run, policy, call, trace, history>>

----------------------------------------------------------------------------
(* The external collaborators *)

\* RotationModel.get_rotation(to_time, plate_id, from_time)
GetRotation(model, to_time, plate_id, from_time) ==
    <<model, to_time, plate_id, from_time>>

\* the rotation model has no rotation for the plate: get_rotation raises
RotationMissing(model, plate_id) == model = "RX" /\ plate_id = 2

\* the topology features cannot be resolved at the time: resolve_topologies raises
TopologyMissing(topology_features, time) == topology_features = "gap1" /\ time = 1

\* stage_rotation * point
Rotate(rotation, point) == Append(point, rotation)

\* the speed (km/My) the rotation model gives a plate
SpeedOf(model, plate_id) ==
    IF model = "RA" THEN 20 * plate_id ELSE 5 * plate_id

\* pygplates.calculate_velocities((point,), rotation, 1, kms_per_my)[0]
Velocity(rotation, point) ==
    SpeedOf(rotation[1], rotation[3]) * (rotation[2] - rotation[4])

BoundaryPlateId(boundary) == boundary[1]
SubSegments(boundary) == boundary[2]
FeatureType(sub_segment) == sub_segment[1]
\* the distance of the located point to a sub-segment, to the whole boundary
SegmentDistance(sub_segment) == sub_segment[2]
BoundaryDistance(boundary) ==
    Min({SegmentDistance(SubSegments(boundary)[k]) : k \in DOMAIN SubSegments(boundary)})

----------------------------------------------------------------------------
(* DefaultCollision *)

VelocityTestInclusive(delta_velocity_magnitude, threshold_velocity_delta) ==
    delta_velocity_magnitude >= threshold_velocity_delta

VelocityTest(delta_velocity_magnitude, threshold_velocity_delta) ==
    delta_velocity_magnitude > threshold_velocity_delta

\* GeometryOnSphere.distance(prev_point, geometry, threshold) is not None, with
\* both sides of the comparison multiplied by the Earth's radius (km, not radians)
DetectCollisionUsingCollisionParameters(reconstruction_time_interval, delta_velocity_magnitude, distance, threshold_velocity_delta, threshold_distance_to_boundary_per_my) ==
    /\ VelocityTest(delta_velocity_magnitude, threshold_velocity_delta)
    /\ distance <= (threshold_distance_to_boundary_per_my + delta_velocity_magnitude)
                       * reconstruction_time_interval

\* dict.get(key, default)
DictGet(dict, key, default) ==
    IF key \in DOMAIN dict THEN dict[key] ELSE default

DictSet(dict, key, value) ==
    [k \in DOMAIN dict \cup {key} |-> IF k = key THEN value ELSE dict[k]]

PlateTransitionAlways(prev_topology_plate_id, curr_topology_plate_id) ==
    prev_topology_plate_id # None /\ curr_topology_plate_id # None

PlateTransition(prev_topology_plate_id, curr_topology_plate_id) ==
    /\ curr_topology_plate_id # prev_topology_plate_id
    /\ prev_topology_plate_id # None
    /\ curr_topology_plate_id # None

\* DefaultCollision.__call__: the verdict and the instance after the call
DefaultCollision(self, rotation_model, time, reconstruction_time_interval, prev_point, curr_point, prev_topology_plate_id, prev_resolved_plate_boundary, curr_topology_plate_id, curr_resolved_plate_boundary) ==
    IF PlateTransition(prev_topology_plate_id, curr_topology_plate_id)
    THEN
        LET dict0 == IF time # self.velocity_stage_rotation_time
                     THEN << >> ELSE self.velocity_stage_rotation_dict
            prev_rotation ==
                DictGet(dict0, prev_topology_plate_id,
                        GetRotation(rotation_model, time + 1, prev_topology_plate_id, time))
            dict1 == DictSet(dict0, prev_topology_plate_id, prev_rotation)
            curr_rotation ==
                DictGet(dict1, curr_topology_plate_id,
                        GetRotation(rotation_model, time + 1, curr_topology_plate_id, time))
            dict2 == DictSet(dict1, curr_topology_plate_id, curr_rotation)
            prev_raises == /\ prev_topology_plate_id \notin DOMAIN dict0
                           /\ RotationMissing(rotation_model, prev_topology_plate_id)
            curr_raises == /\ curr_topology_plate_id \notin DOMAIN dict1
                           /\ RotationMissing(rotation_model, curr_topology_plate_id)
            delta_velocity_magnitude ==
                Abs(Velocity(curr_rotation, curr_point) - Velocity(prev_rotation, curr_point))
            feature_specific == self.feature_specific_collision_parameters
            segments == SubSegments(prev_resolved_plate_boundary)
            parameters(k) == DictGet(feature_specific, FeatureType(segments[k]),
                                     self.global_collision_parameters)
        IN  IF prev_raises \/ curr_raises
            \* get_rotation raises: the cache keeps what was stored before
            THEN [collision |-> FALSE, raised |-> TRUE,
                  delta_velocity_magnitude |-> None,
                  self |-> [self EXCEPT
                                !.velocity_stage_rotation_dict =
                                    IF prev_raises THEN dict0 ELSE dict1,
                                !.velocity_stage_rotation_time = time]]
            ELSE
            [collision |->
                IF feature_specific # << >>
                THEN \E k \in DOMAIN segments :
                        DetectCollisionUsingCollisionParameters(
                            reconstruction_time_interval, delta_velocity_magnitude,
                            SegmentDistance(segments[k]),
                            parameters(k)[1], parameters(k)[2])
                ELSE DetectCollisionUsingCollisionParameters(
                        reconstruction_time_interval, delta_velocity_magnitude,
                        BoundaryDistance(prev_resolved_plate_boundary),
                        self.global_collision_parameters[1],
                        self.global_collision_parameters[2]),
             raised |-> FALSE,
             delta_velocity_magnitude |-> delta_velocity_magnitude,
             self |-> [self EXCEPT !.velocity_stage_rotation_dict = dict2,
                                   !.velocity_stage_rotation_time = time]]
    ELSE [collision |-> FALSE, raised |-> FALSE,
          delta_velocity_magnitude |-> None, self |-> self]

----------------------------------------------------------------------------
(* ContinentCollision *)

\* A continental grid is [time |-> the time it was written for, values |-> the
\* value the nearest-neighbour interpolator gives each point, in tenths, by the
\* point's seed].  grd_output_dir maps a time to the grid read_netcdf_grid
\* finds under that name, or to Unavailable when the read fails.
Unavailable == [available |-> FALSE]
\* no attribute 'f' yet
NoRaster == [loaded |-> FALSE]
\* chain_collision_detection=None
NoPolicy == [chained |-> FALSE]

\* the mask value above which a point lies in a continent: 0.5, in tenths
ContinentThreshold == 5

\* self.f([lon, lat]) of the point
Sample(f, point) == f.values[Head(point)]

InContinentInclusive(f, point) == Sample(f, point) >= ContinentThreshold

\* self.f(...) > 0.5
InContinent(f, point) == Sample(f, point) > ContinentThreshold

\* ContinentCollision.__init__
NewContinentCollision(grd_output_dir, chain_collision_detection) ==
    [grd_output_dir |-> grd_output_dir,
     chain_collision_detection |-> chain_collision_detection,
     grid_time |-> None,
     f |-> NoRaster,
     continent_deletion_count |-> None]

\* if self.chain_collision_detection:
ChainedNever(self) == FALSE

Chained(self) == self.chain_collision_detection # NoPolicy

\* ContinentCollision.__call__: the verdict (or the exception raised), the
\* instance after the call, the grid the verdict was sampled from and the
\* arguments handed to the chained policy
ContinentCollision(self, rotation_model, time, reconstruction_time_interval, prev_point, curr_point, prev_topology_plate_id, prev_resolved_plate_boundary, curr_topology_plate_id, curr_resolved_plate_boundary) ==
    LET new_time == time # self.grid_time
        file == self.grd_output_dir[time]
        timed == IF new_time THEN [self EXCEPT !.grid_time = time] ELSE self
        loaded == IF new_time /\ file # Unavailable
                  THEN [timed EXCEPT !.f = file, !.continent_deletion_count = 0]
                  ELSE timed
        quiet == [raised |-> FALSE, error |-> "", collision |-> FALSE,
                  delta_velocity_magnitude |-> None, sampled |-> loaded.f,
                  chained_arguments |-> << >>, self |-> loaded]
    IN  IF new_time /\ file = Unavailable
        THEN [quiet EXCEPT !.raised = TRUE, !.error = "RasterUnavailable",
                           !.self = timed]
        ELSE IF loaded.f = NoRaster
        THEN [quiet EXCEPT !.raised = TRUE, !.error = "AttributeError"]
        ELSE IF InContinent(loaded.f, curr_point)
        THEN [quiet EXCEPT
                !.collision = TRUE,
                !.self = [loaded EXCEPT !.continent_deletion_count = @ + 1]]
        ELSE IF Chained(loaded)
        THEN LET verdict == DefaultCollision(
                    loaded.chain_collision_detection, rotation_model, time,
                    reconstruction_time_interval, prev_point, curr_point,
                    prev_topology_plate_id, prev_resolved_plate_boundary,
                    curr_topology_plate_id, curr_resolved_plate_boundary)
             IN  [quiet EXCEPT
                    !.collision = verdict.collision,
                    !.raised = verdict.raised,
                    !.error = IF verdict.raised THEN "MissingRotation" ELSE "",
                    !.delta_velocity_magnitude = verdict.delta_velocity_magnitude,
                    !.chained_arguments =
                        <<rotation_model, time, reconstruction_time_interval,
                          prev_point, curr_point,
                          prev_topology_plate_id, prev_resolved_plate_boundary,
                          curr_topology_plate_id, curr_resolved_plate_boundary>>,
                    !.self = [loaded EXCEPT !.chain_collision_detection = verdict.self]]
        ELSE quiet

----------------------------------------------------------------------------
(* ReconstructByTopologies: the time loop *)

get_current_time(self, current_time_index) ==
    self.reconstruction_begin_time + current_time_index * self.reconstruction_time_step

get_all_current_points(r) == r.curr_points

get_in_continent_indices(r) == <<r.in_continent_points, r.in_continent_indices>>

\* the buffer itself, the inactive entries included
AllCurrentPointsReturned(r) == get_all_current_points(r)

get_active_current_points(r) ==
    SelectSeq(get_all_current_points(r), LAMBDA point : point # NoPoint)

InValidTimeRangeStrict(self, k, current_time) ==
    /\ current_time < self.point_begin_times[k]
    /\ current_time >= self.point_end_times[k]

\* current_time <= begin time and current_time >= end time
InValidTimeRange(self, k, current_time) ==
    /\ current_time <= self.point_begin_times[k]
    /\ current_time >= self.point_end_times[k]

CanActivateAgain(self, r, k, current_time) ==
    /\ r.curr_points[k] = NoPoint
    /\ InValidTimeRange(self, k, current_time)

\* a point that is not active and has never been activated enters its time range
CanActivate(self, r, k, current_time) ==
    /\ r.curr_points[k] = NoPoint
    /\ ~r.point_has_been_activated[k]
    /\ InValidTimeRange(self, k, current_time)

activate_deactivate_points(self, r) ==
    LET current_time == get_current_time(self, r.current_time_index)
        P == 1..self.num_points
    IN  [r EXCEPT
            !.curr_points =
                [k \in P |->
                    IF r.curr_points[k] = NoPoint
                    THEN IF CanActivate(self, r, k, current_time)
                         THEN self.points[k] ELSE NoPoint
                    ELSE IF ~InValidTimeRange(self, k, current_time)
                         THEN NoPoint ELSE r.curr_points[k]],
            !.point_has_been_activated =
                [k \in P |-> r.point_has_been_activated[k]
                                \/ CanActivate(self, r, k, current_time)],
            !.num_activated_points =
                @ + Cardinality({k \in P : CanActivate(self, r, k, current_time)})]

\* located[k] is the resolved topology find_polygons returns for point k
find_resolved_topologies_containing_points(self, r, located) ==
    LET P == 1..self.num_points
    IN  [r EXCEPT
            !.curr_resolved_plate_boundaries =
                [k \in P |-> IF r.curr_points[k] = NoPoint THEN NoBoundary ELSE located[k]],
            !.curr_topology_plate_ids =
                [k \in P |-> IF r.curr_points[k] = NoPoint \/ located[k] = NoBoundary
                             THEN None ELSE BoundaryPlateId(located[k])]]

\* begin_reconstruction up to and including _activate_deactivate_points
BeginBuffers(self) ==
    LET P == 1..self.num_points
    IN  activate_deactivate_points(self,
            [begun |-> TRUE,
             current_time_index |-> 0,
             prev_points |-> [k \in P |-> NoPoint],
             curr_points |-> [k \in P |-> NoPoint],
             next_points |-> [k \in P |-> NoPoint],
             point_has_been_activated |-> [k \in P |-> FALSE],
             num_activated_points |-> 0,
             prev_topology_plate_ids |-> [k \in P |-> None],
             curr_topology_plate_ids |-> [k \in P |-> None],
             prev_resolved_plate_boundaries |-> [k \in P |-> NoBoundary],
             curr_resolved_plate_boundaries |-> [k \in P |-> NoBoundary],
             in_continent_indices |-> [k \in P |-> None],
             in_continent_points |-> [k \in P |-> NoPoint],
             deletedpoints |-> << >>])

begin_reconstruction(self, located) ==
    find_resolved_topologies_containing_points(self, BeginBuffers(self), located)

\* pygplates.resolve_topologies raises at the current time of the buffers
ResolveFailure(self, r) ==
    TopologyMissing(self.topology_features, get_current_time(self, r.current_time_index))

\* _find_resolved_topologies_containing_points, which returns or raises
Resolved(self, r, located) ==
    IF ResolveFailure(self, r)
    THEN [run |-> r, raised |-> TRUE]
    ELSE [run |-> find_resolved_topologies_containing_points(self, r, located),
          raised |-> FALSE]

\* begin_reconstruction without 'self.deletedpoints = []'
begin_reconstruction_keeping_deletedpoints(self, located) ==
    Resolved(self,
             [BeginBuffers(self) EXCEPT
                !.deletedpoints = IF run.begun THEN run.deletedpoints ELSE << >>],
             located)

\* begin_reconstruction, which returns or raises
begin_reconstruction_raising(self, located) ==
    Resolved(self, BeginBuffers(self), located)

NoNextTimeWhenInactive(self, r) ==
    /\ r.num_activated_points = self.num_points
    /\ \A k \in 1..self.num_points : r.curr_points[k] = NoPoint

\* the two early returns of reconstruct_to_next_time
NoNextTime(self, r) ==
    \/ r.current_time_index = self.last_time_index
    \/ /\ r.num_activated_points = self.num_points
       /\ \A k \in 1..self.num_points : r.curr_points[k] = NoPoint

RECURSIVE StageRotationLoop(_, _, _, _)
\* the first loop from point k on: reconstruct_stage_rotation_dict and the
\* plate IDs the rotation model was asked for, in the order of the calls
StageRotationLoop(self, r, k, cache) ==
    IF k > self.num_points THEN cache
    ELSE IF \/ r.curr_points[k] = NoPoint
            \/ r.curr_topology_plate_ids[k] = None
            \/ r.curr_topology_plate_ids[k] \in DOMAIN cache.dict
    THEN StageRotationLoop(self, r, k + 1, cache)
    ELSE StageRotationLoop(self, r, k + 1,
            [dict |-> DictSet(cache.dict, r.curr_topology_plate_ids[k],
                              GetRotation(self.rotation_model,
                                          get_current_time(self, r.current_time_index)
                                            + self.reconstruction_time_step,
                                          r.curr_topology_plate_ids[k],
                                          get_current_time(self, r.current_time_index))),
             asked |-> Append(cache.asked, r.curr_topology_plate_ids[k])])

\* the cache left by the step before, for the plates 1 and 2
StageRotationDictKept(self, r) ==
    StageRotationLoop(self, r, 1,
        [dict |-> [p \in 1..2 |->
                    GetRotation(self.rotation_model,
                                get_current_time(self, r.current_time_index),
                                p, get_current_time(self, r.current_time_index - 1))],
         asked |-> << >>])

\* reconstruct_stage_rotation_dict = {} and the loop over all points
reconstruct_stage_rotation_dict(self, r) ==
    StageRotationLoop(self, r, 1, [dict |-> << >>, asked |-> << >>])

\* the entry of next_points for point k after the first loop
NextPoint(self, r, k) ==
    LET curr_plate_id == r.curr_topology_plate_ids[k]
    IN  IF r.curr_points[k] = NoPoint THEN NoPoint
        ELSE IF curr_plate_id = None
        \* 'continue': the entry of the re-used array is left as it is
        THEN r.next_points[k]
        ELSE Rotate(reconstruct_stage_rotation_dict(self, r).dict[curr_plate_id],
                    r.curr_points[k])

\* reconstruct_to_next_time up to and including _activate_deactivate_points
AdvanceBuffers(self, r) ==
    activate_deactivate_points(self,
        [r EXCEPT
            !.prev_points = r.curr_points,
            !.curr_points = [k \in 1..self.num_points |-> NextPoint(self, r, k)],
            !.next_points = r.prev_points,
            !.prev_topology_plate_ids = r.curr_topology_plate_ids,
            !.curr_topology_plate_ids = r.prev_topology_plate_ids,
            !.prev_resolved_plate_boundaries = r.curr_resolved_plate_boundaries,
            !.curr_resolved_plate_boundaries = r.prev_resolved_plate_boundaries,
            !.current_time_index = r.current_time_index + 1])

\* the class of the callable given as detect_collisions
IsContinentCollision(self) == "grd_output_dir" \in DOMAIN self

\* self(rotation_model, time, ...): the verdict, the instance after the call
\* and the record of the call
CallRecorded(continental, verdict, rotation_model, time, reconstruction_time_interval, prev_point, curr_point, prev_topology_plate_id, prev_resolved_plate_boundary, curr_topology_plate_id, curr_resolved_plate_boundary) ==
        [collision |-> verdict.collision,
         raised |-> verdict.raised,
         self |-> verdict.self,
         call |-> [made |-> TRUE,
                   raised |-> verdict.raised,
                   error |-> IF continental THEN verdict.error
                             ELSE IF verdict.raised THEN "MissingRotation" ELSE "",
                   sampled |-> IF continental THEN verdict.sampled ELSE NoRaster,
                   chained_arguments |->
                        IF continental THEN verdict.chained_arguments ELSE << >>,
                   rotation_model |-> rotation_model,
                   time |-> time,
                   reconstruction_time_interval |-> reconstruction_time_interval,
                   prev_point |-> prev_point,
                   curr_point |-> curr_point,
                   prev_topology_plate_id |-> prev_topology_plate_id,
                   prev_resolved_plate_boundary |-> prev_resolved_plate_boundary,
                   curr_topology_plate_id |-> curr_topology_plate_id,
                   curr_resolved_plate_boundary |-> curr_resolved_plate_boundary,
                   delta_velocity_magnitude |-> verdict.delta_velocity_magnitude,
                   collision |-> verdict.collision]]

\* self(...) dispatched on the class of self
PolicyVerdict(self, rotation_model, time, reconstruction_time_interval, prev_point, curr_point, prev_topology_plate_id, prev_resolved_plate_boundary, curr_topology_plate_id, curr_resolved_plate_boundary) ==
    IF IsContinentCollision(self)
    THEN ContinentCollision(
            self, rotation_model, time, reconstruction_time_interval,
            prev_point, curr_point,
            prev_topology_plate_id, prev_resolved_plate_boundary,
            curr_topology_plate_id, curr_resolved_plate_boundary)
    ELSE DefaultCollision(
            self, rotation_model, time, reconstruction_time_interval,
            prev_point, curr_point,
            prev_topology_plate_id, prev_resolved_plate_boundary,
            curr_topology_plate_id, curr_resolved_plate_boundary)

CallPolicy(self, rotation_model, time, reconstruction_time_interval, prev_point, curr_point, prev_topology_plate_id, prev_resolved_plate_boundary, curr_topology_plate_id, curr_resolved_plate_boundary) ==
    CallRecorded(
        IsContinentCollision(self),
        PolicyVerdict(
            self, rotation_model, time, reconstruction_time_interval,
            prev_point, curr_point,
            prev_topology_plate_id, prev_resolved_plate_boundary,
            curr_topology_plate_id, curr_resolved_plate_boundary),
        rotation_model, time, reconstruction_time_interval,
        prev_point, curr_point,
        prev_topology_plate_id, prev_resolved_plate_boundary,
        curr_topology_plate_id, curr_resolved_plate_boundary)

\* the collision loop from point k on: the buffers, the policy and the last
\* call of the policy after it
RECURSIVE DetectCollisions(_, _, _, _, _)

CurrentSlotActive(r, k) == r.curr_points[k] # NoPoint

\* not (prev_point is None or curr_point is None)
BothSlotsActive(r, k) == r.prev_points[k] # NoPoint /\ r.curr_points[k] # NoPoint

\* the loop left at the first collision: the points after k are not examined
CollisionHandledBreak(self, r, verdict, k) ==
    IF verdict.raised
    THEN [run |-> r, policy |-> verdict.self, call |-> verdict.call, raised |-> TRUE]
    ELSE IF verdict.collision
    THEN [run |-> [r EXCEPT !.curr_points[k] = NoPoint,
                            !.deletedpoints = Append(@, k)],
          policy |-> verdict.self, call |-> verdict.call, raised |-> FALSE]
    ELSE DetectCollisions(self, r, verdict.self, verdict.call, k + 1)

\* the rest of the loop after the policy has answered for point k
CollisionHandled(self, r, verdict, k) ==
    IF verdict.raised
    \* the exception leaves the loop and reconstruct_to_next_time
    THEN [run |-> r, policy |-> verdict.self, call |-> verdict.call, raised |-> TRUE]
    ELSE DetectCollisions(
            self,
            IF verdict.collision
            THEN [r EXCEPT !.curr_points[k] = NoPoint,
                           !.deletedpoints = Append(@, k)]
            ELSE r,
            verdict.self, verdict.call, k + 1)

DetectCollisions(self, r, pol, last_call, k) ==
    IF k > self.num_points
    THEN [run |-> r, policy |-> pol, call |-> last_call, raised |-> FALSE]
    ELSE IF ~BothSlotsActive(r, k)
    THEN DetectCollisions(self, r, pol, last_call, k + 1)
    ELSE CollisionHandled(
            self, r,
            CallPolicy(
                pol, self.rotation_model,
                get_current_time(self, r.current_time_index),
                self.reconstruction_time_interval,
                r.prev_points[k], r.curr_points[k],
                r.prev_topology_plate_ids[k], r.prev_resolved_plate_boundaries[k],
                r.curr_topology_plate_ids[k], r.curr_resolved_plate_boundaries[k]),
            k)

CollisionsDetectedAlways(self) == TRUE

\* if self.detect_collisions:
CollisionsDetected(self) == self.detect_collisions # "None"

RotationFailureIgnored(self, r) == 0

\* the first point of the first loop for which get_rotation raises, 0 if none
RotationFailure(self, r) ==
    LET failing == {k \in 1..self.num_points :
                        /\ r.curr_points[k] # NoPoint
                        /\ r.curr_topology_plate_ids[k] # None
                        /\ RotationMissing(self.rotation_model,
                                           r.curr_topology_plate_ids[k])}
    IN  IF failing = {} THEN 0 ELSE Min(failing)

\* the first loop leaving at point 'failing': the entries before it are written
FirstLoopRaised(self, r, failing) ==
    [r EXCEPT !.next_points =
        [k \in 1..self.num_points |->
            IF k < failing THEN NextPoint(self, r, k) ELSE r.next_points[k]]]

\* reconstruct_to_next_time from the collision loop on
AfterResolved(self, resolved, pol, last_call) ==
    IF resolved.raised \/ ~CollisionsDetected(self)
    THEN [run |-> resolved.run, policy |-> pol, call |-> last_call,
          raised |-> resolved.raised]
    ELSE DetectCollisions(self, resolved.run, pol, last_call, 1)

\* reconstruct_to_next_time when it returns True or raises
reconstruct_to_next_time(self, r, pol, last_call, located) ==
    IF RotationFailure(self, r) # 0
    THEN [run |-> FirstLoopRaised(self, r, RotationFailure(self, r)),
          policy |-> pol, call |-> last_call, raised |-> TRUE]
    ELSE AfterResolved(self, Resolved(self, AdvanceBuffers(self, r), located),
                       pol, last_call)

----------------------------------------------------------------------------
(* The operations of the engine as actions *)

\* engine.begin_reconstruction(), the resolved topologies being 'located'
BegunReconstruction(begun) ==
    /\ engine' = [engine EXCEPT !.phase = IF begun.raised THEN "failed" ELSE "running"]
    /\ run' = begun.run
    /\ trace' = <<begun.run.curr_topology_plate_ids>>
    /\ UNCHANGED <<args, policy, call, history>>

BeginReconstruction(located) ==
    /\ engine.phase \in {"constructed", "done"}
    /\ BegunReconstruction(begin_reconstruction_raising(engine, located))

\* engine.reconstruct_to_next_time() returning True, or raising what a
\* collaborator raised (nothing in the engine catches an exception)
ReconstructedToNextTime(after) ==
    /\ run' = after.run
    /\ policy' = after.policy
    /\ call' = after.call
    /\ engine' = IF after.raised THEN [engine EXCEPT !.phase = "failed"] ELSE engine
    /\ trace' = Append(trace, after.run.curr_topology_plate_ids)
    /\ UNCHANGED <<args, history>>

ReconstructToNextTime(located) ==
    /\ engine.phase = "running"
    /\ ~NoNextTime(engine, run)
    /\ ReconstructedToNextTime(
            reconstruct_to_next_time(engine, run, policy, call, located))

\* engine.reconstruct_to_next_time() returning False: reconstruct() returns
ReconstructReturn ==
    /\ engine.phase = "running"
    /\ NoNextTime(engine, run)
    /\ engine' = [engine EXCEPT !.phase = "done"]
    /\ history' = history \cup {<<args, get_active_current_points(run)>>}
    /\ UNCHANGED <<args, run, policy, call, trace>>

----------------------------------------------------------------------------
(* Inputs *)

Times == 0..MaxTime
RotationModels == {"RA", "RB"}

\* the input points: point k starts at the seed position <<k>>
SeedPoints(n) == [k \in 1..n |-> <<k>>]

\* the numbers of points of an engine
PointCounts == {1, 2}

\* an optional per-point array: omitted, or given with any of the lengths
GivenArrays(v) == {<< >>} \cup {<<[k \in 1..m |-> v]>> : m \in {0} \cup PointCounts}

\* every argument list, valid or not
AllArgs ==
    [rotation_model : {"RA"},
     topology_features : {"any"},
     reconstruction_begin_time : Times,
     reconstruction_end_time : Times,
     reconstruction_time_interval : (-1)..(MaxTime + 1),
     points : {SeedPoints(n) : n \in {0} \cup PointCounts},
     point_begin_times : GivenArrays(MaxTime),
     point_end_times : GivenArrays(0),
     point_plate_ids : GivenArrays(2),
     detect_collisions : {"None", "DefaultCollision"}]

----------------------------------------------------------------------------
(* Inputs of the engine runs *)

RidgeType == "gpml:MidOceanRidge"
TrenchType == "gpml:SubductionZone"

\* the resolved topologies the locator can answer with: plate 1 with the point
\* 25 km from its trench, plate 2 with the point 25 km or 40 km from its ridge
Boundaries ==
    {<<1, <<<<RidgeType, 40>>, <<TrenchType, 25>>>>>>,
     <<2, <<<<RidgeType, 25>>, <<TrenchType, 40>>>>>>,
     <<2, <<<<RidgeType, 40>>, <<TrenchType, 40>>>>>>}

\* the answers of find_polygons: one boundary or none for each active point
LocatorAnswers(r) ==
    {located \in [DOMAIN r.curr_points -> Boundaries \cup {NoBoundary}] :
        \A k \in DOMAIN r.curr_points :
            r.curr_points[k] = NoPoint => located[k] = NoBoundary}

\* DefaultCollision.__init__
NewDefaultCollision(global_collision_parameters, feature_specific_collision_parameters) ==
    [global_collision_parameters |-> global_collision_parameters,
     feature_specific_collision_parameters |-> feature_specific_collision_parameters,
     velocity_stage_rotation_dict |-> << >>,
     velocity_stage_rotation_time |-> None]

\* DEFAULT_COLLISION = DefaultCollision()
DEFAULT_COLLISION ==
    NewDefaultCollision(<<DefaultVelocityThreshold, DefaultDistanceThreshold>>, << >>)

Policies ==
    {DEFAULT_COLLISION,
     NewDefaultCollision(<<0, 0>>, << >>),
     NewDefaultCollision(<<100, 10>>, (TrenchType :> <<-1, 30>>))}

\* the (begin time, end time) of each point
Windows(n) ==
    {w \in [1..n -> {<<PosInf, NegInf>>, <<2, 1>>, <<1, 1>>}] :
        \A k \in 2..n : w[k] # <<1, 1>>}

\* the argument lists of the engine runs with n points
RunArgsFor(n) ==
    {[rotation_model |-> "RA",
      topology_features |-> "any",
      reconstruction_begin_time |-> b,
      reconstruction_end_time |-> e,
      reconstruction_time_interval |-> i,
      points |-> SeedPoints(n),
      point_begin_times |-> <<[k \in 1..n |-> w[k][1]]>>,
      point_end_times |-> <<[k \in 1..n |-> w[k][2]]>>,
      point_plate_ids |-> << >>,
      detect_collisions |-> d] :
        b \in Times, e \in Times, i \in 1..2,
        w \in Windows(n), d \in {"None", "DefaultCollision"}}

RunArgs ==
    {a \in UNION {RunArgsFor(n) : n \in PointCounts} :
        Len(a.points) * ReconstructByTopologies(a).last_time_index <= MaxWork}

----------------------------------------------------------------------------
(* The engine: one run of one engine *)

Init ==
    /\ args = << >>
    /\ engine = [phase |-> "new"]
    /\ run = NoRun
    /\ policy \in Policies
    /\ call = NoCall
    /\ trace = << >>
    /\ history = {}

\* an engine without collision detection is given no policy instance
ConstructRun ==
    /\ engine.phase = "new"
    /\ \E a \in RunArgs :
        /\ a.detect_collisions = "None" => policy = DEFAULT_COLLISION
        /\ Construct(a)

Begin ==
    /\ engine.phase = "constructed"
    /\ \E located \in LocatorAnswers(BeginBuffers(engine)) : BeginReconstruction(located)

Step ==
    /\ engine.phase = "running"
    /\ ~NoNextTime(engine, run)
    /\ \E located \in LocatorAnswers(AdvanceBuffers(engine, run)) :
            ReconstructToNextTime(located)

Next == ConstructRun \/ Begin \/ Step \/ ReconstructReturn

Spec == Init /\ [][Next]_vars

----------------------------------------------------------------------------
(* The engine run from 10 Ma to 0 Ma whose first point exists at 5 Ma only *)

InstantArgsFor(n) ==
    {[rotation_model |-> "RA",
      topology_features |-> "any",
      reconstruction_begin_time |-> 10,
      reconstruction_end_time |-> 0,
      reconstruction_time_interval |-> i,
      points |-> SeedPoints(n),
      point_begin_times |-> <<[k \in 1..n |-> IF k = 1 THEN 5 ELSE PosInf]>>,
      point_end_times |-> <<[k \in 1..n |-> IF k = 1 THEN 5 ELSE NegInf]>>,
      point_plate_ids |-> << >>,
      detect_collisions |-> d] :
        i \in 1..11, d \in {"None", "DefaultCollision"}}

InstantArgs ==
    {a \in UNION {InstantArgsFor(n) : n \in PointCounts} :
        Len(a.points) = 1
            \/ Len(a.points) * ReconstructByTopologies(a).last_time_index <= MaxWork}

ConstructInstant ==
    /\ engine.phase = "new"
    /\ \E a \in InstantArgs :
        /\ a.detect_collisions = "None" => policy = DEFAULT_COLLISION
        /\ Construct(a)

NextInstant == ConstructInstant \/ Begin \/ Step \/ ReconstructReturn

SpecInstant == Init /\ [][NextInstant]_vars

\* reconstruct() calls reconstruct_to_next_time until it returns False
SpecLoop == SpecInstant /\ WF_vars(Step) /\ WF_vars(ReconstructReturn)

----------------------------------------------------------------------------
(* The engine with the continental policy *)

Grid(time, values) == [time |-> time, values |-> values]

\* directories of continental grids: the first point over a continent at all
\* times; the second point over a continent at odd times and the first on the
\* 0.5 contour at even times; the grid of time 1 missing
GridDirs ==
    {[t \in Times |-> Grid(t, <<10, 0>>)],
     [t \in Times |-> Grid(t, IF t % 2 = 1 THEN <<0, 10>> ELSE <<5, 0>>)],
     [t \in Times |-> IF t = 1 THEN Unavailable ELSE Grid(t, <<0, 10>>)]}

ContinentPolicies ==
    {NewContinentCollision(d, c) :
        d \in GridDirs, c \in {DEFAULT_COLLISION, NoPolicy}}

ContinentArgsFor(n) ==
    {[rotation_model |-> "RA",
      topology_features |-> "any",
      reconstruction_begin_time |-> b,
      reconstruction_end_time |-> e,
      reconstruction_time_interval |-> 1,
      points |-> SeedPoints(n),
      point_begin_times |-> << >>,
      point_end_times |-> <<[k \in 1..n |-> w]>>,
      point_plate_ids |-> << >>,
      detect_collisions |-> "ContinentCollision"] :
        b \in Times, e \in Times, w \in {NegInf, 1}}

ContinentArgs ==
    {a \in UNION {ContinentArgsFor(n) : n \in PointCounts} :
        Len(a.points) * ReconstructByTopologies(a).last_time_index <= MaxWork}

InitContinent ==
    /\ args = << >>
    /\ engine = [phase |-> "new"]
    /\ run = NoRun
    /\ policy \in ContinentPolicies
    /\ call = NoCall
    /\ trace = << >>
    /\ history = {}

ConstructContinent == engine.phase = "new" /\ \E a \in ContinentArgs : Construct(a)

NextContinent == ConstructContinent \/ Begin \/ Step \/ ReconstructReturn

SpecContinent == InitContinent /\ [][NextContinent]_vars

----------------------------------------------------------------------------
(* The engine with collaborators that fail: a rotation model without plate 2,
   topology features that do not resolve at 1 Ma *)

FailingArgsFor(n) ==
    {[rotation_model |-> m,
      topology_features |-> f,
      reconstruction_begin_time |-> b,
      reconstruction_end_time |-> e,
      reconstruction_time_interval |-> 1,
      points |-> SeedPoints(n),
      point_begin_times |-> << >>,
      point_end_times |-> << >>,
      point_plate_ids |-> << >>,
      detect_collisions |-> d] :
        m \in {"RA", "RX"}, f \in {"any", "gap1"},
        b \in Times, e \in Times, d \in {"None", "DefaultCollision"}}

FailingArgs ==
    {a \in UNION {FailingArgsFor(n) : n \in PointCounts} :
        Len(a.points) * ReconstructByTopologies(a).last_time_index <= MaxWork}

InitFailing ==
    /\ args = << >>
    /\ engine = [phase |-> "new"]
    /\ run = NoRun
    /\ policy = DEFAULT_COLLISION
    /\ call = NoCall
    /\ trace = << >>
    /\ history = {}

ConstructFailing == engine.phase = "new" /\ \E a \in FailingArgs : Construct(a)

NextFailing == ConstructFailing \/ Begin \/ Step \/ ReconstructReturn

SpecFailing == InitFailing /\ [][NextFailing]_vars

----------------------------------------------------------------------------
(* The kinematic policy alone: calls with arguments of any caller *)

PolicyInputs ==
    {NewDefaultCollision(g, f) :
        g \in {<<DefaultVelocityThreshold, DefaultDistanceThreshold>>, <<0, 0>>,
               <<20, 10>>, <<-1, 30>>},
        f \in {<< >>, (TrenchType :> <<20, 10>>),
               (RidgeType :> <<100, 0>>) @@ (TrenchType :> <<5, 0>>)}}

InitPolicy ==
    /\ args = << >>
    /\ engine = [phase |-> "new"]
    /\ run = NoRun
    /\ policy \in PolicyInputs
    /\ call = NoCall
    /\ trace = << >>
    /\ history = {}

\* policy(rotation_model, time, interval, prev_point, curr_point, ...)
PolicyCalled(rotation_model, time, interval, prev_boundary, curr_boundary) ==
    LET plate_id(boundary) ==
            IF boundary = NoBoundary THEN None ELSE BoundaryPlateId(boundary)
        result == CallPolicy(policy, rotation_model, time, interval,
                             <<1>>, <<1, GetRotation(rotation_model, time, 1, time + interval)>>,
                             plate_id(prev_boundary), prev_boundary,
                             plate_id(curr_boundary), curr_boundary)
    IN  /\ policy' = result.self
        /\ call' = result.call
        /\ UNCHANGED <<args, engine, run, trace, history>>

NextPolicy ==
    \E rotation_model \in RotationModels, time \in 0..1, interval \in 1..2,
       prev_boundary \in Boundaries \cup {NoBoundary},
       curr_boundary \in Boundaries \cup {NoBoundary} :
        PolicyCalled(rotation_model, time, interval, prev_boundary, curr_boundary)

SpecPolicy == InitPolicy /\ [][NextPolicy]_vars

----------------------------------------------------------------------------
(* The continental policy alone: calls with arguments of any caller *)

\* ContinentCollision(grd_output_dir): chain_collision_detection=DEFAULT_COLLISION
NewContinentCollisionDefault(grd_output_dir) ==
    NewContinentCollision(grd_output_dir, DEFAULT_COLLISION)

ContinentPolicyInputs ==
    {NewContinentCollisionDefault(d) : d \in GridDirs}
        \cup {NewContinentCollision(d, c) :
                d \in GridDirs,
                c \in {NoPolicy, NewDefaultCollision(<<0, 0>>, << >>)}}

InitContinentPolicy ==
    /\ args = << >>
    /\ engine = [phase |-> "new"]
    /\ run = NoRun
    /\ policy \in ContinentPolicyInputs
    /\ call = NoCall
    /\ trace = << >>
    /\ history = {}

\* calls go on until the deletion counter of the loaded grid reaches the bound
NextContinentPolicy ==
    /\ policy.continent_deletion_count < MaxDeletionCount
    /\ NextPolicy

SpecContinentPolicy == InitContinentPolicy /\ [][NextContinentPolicy]_vars

----------------------------------------------------------------------------
(* Several engines in one process, all using DEFAULT_COLLISION, the
   collaborators fixed: the topologies resolve the same way at every call *)

\* pygplates.resolve_topologies and find_polygons on fixed topology features:
\* the points lie in plate 1 at even times and in plate 2 at odd times
WorldLocate(topology_features, time, r) ==
    [k \in DOMAIN r.curr_points |->
        IF r.curr_points[k] = NoPoint THEN NoBoundary
        ELSE IF time % 2 = 0
             THEN <<1, <<<<RidgeType, 40>>, <<TrenchType, 25>>>>>>
             ELSE <<2, <<<<RidgeType, 25>>, <<TrenchType, 40>>>>>>]

SharedArgs ==
    {a \in [rotation_model : RotationModels,
            topology_features : {"any"},
            reconstruction_begin_time : 1..2,
            reconstruction_end_time : {0},
            reconstruction_time_interval : {1},
            points : {SeedPoints(1)},
            point_begin_times : {<< >>},
            point_end_times : {<< >>},
            point_plate_ids : {<< >>},
            detect_collisions : {"DefaultCollision"}] :
        ReconstructByTopologies(a).last_time_index <= MaxWork}

InitShared ==
    /\ args = << >>
    /\ engine = [phase |-> "new"]
    /\ run = NoRun
    /\ policy = DEFAULT_COLLISION
    /\ call = NoCall
    /\ trace = << >>
    /\ history = {}

ConstructShared == engine.phase = "new" /\ \E a \in SharedArgs : Construct(a)

BeginShared ==
    /\ engine.phase = "constructed"
    /\ BeginReconstruction(
          WorldLocate(engine.topology_features, get_current_time(engine, 0),
                      BeginBuffers(engine)))

StepShared ==
    /\ engine.phase = "running"
    /\ ~NoNextTime(engine, run)
    /\ ReconstructToNextTime(
          WorldLocate(engine.topology_features,
                      get_current_time(engine, run.current_time_index + 1),
                      AdvanceBuffers(engine, run)))

\* reconstruct() called again on an engine whose run has returned
ReconstructAgain ==
    /\ engine.phase = "done"
    /\ BeginReconstruction(
          WorldLocate(engine.topology_features, get_current_time(engine, 0),
                      BeginBuffers(engine)))

\* the engine is dropped and another one is built; the module-level
\* DEFAULT_COLLISION instance lives on
EngineDropped ==
    /\ engine.phase = "done"
    /\ engine' = [phase |-> "new"]
    /\ args' = << >>
    /\ run' = NoRun
    /\ call' = NoCall
    /\ trace' = << >>
    /\ UNCHANGED <<policy, history>>

NextShared ==
    \/ ConstructShared
    \/ BeginShared
    \/ StepShared
    \/ ReconstructReturn
    \/ ReconstructAgain
    \/ EngineDropped

SpecShared == InitShared /\ [][NextShared]_vars

----------------------------------------------------------------------------
(* The constructor alone, over every argument list *)

InitCtor ==
    /\ args = << >>
    /\ engine = [phase |-> "new"]
    /\ run = NoRun
    /\ policy = DEFAULT_COLLISION
    /\ call = NoCall
    /\ trace = << >>
    /\ history = {}

ConstructAny == engine.phase = "new" /\ \E a \in AllArgs : Construct(a)

NextCtor == ConstructAny

SpecCtor == InitCtor /\ [][NextCtor]_vars

----------------------------------------------------------------------------
(* Claims about the constructor *)

Given(opt) == opt # << >>

\* C6: construction fails (ValueError) exactly when the time interval is not
\* positive or a given per-point array has a length other than that of points;
\* otherwise it succeeds and an omitted array defaults to +infinity (begin),
\* -infinity (end) and plate ID 0 for every point; a failed construction has
\* created no buffer.
ConstructionValidation ==
    engine.phase # "new" =>
        LET n == Len(args.points)
            invalid ==
                \/ args.reconstruction_time_interval <= 0
                \/ \E opt \in {args.point_begin_times, args.point_end_times,
                               args.point_plate_ids} : Given(opt) /\ Len(opt[1]) # n
        IN  /\ invalid <=> engine.phase = "raised"
            /\ engine.phase = "raised" => run = NoRun /\ DOMAIN engine = {"phase", "error"}
            /\ ~invalid =>
                /\ Len(engine.point_begin_times) = n
                /\ Len(engine.point_end_times) = n
                /\ Len(engine.point_plate_ids) = n
                /\ \A k \in 1..n :
                    /\ ~Given(args.point_begin_times) => engine.point_begin_times[k] = PosInf
                    /\ ~Given(args.point_end_times) => engine.point_end_times[k] = NegInf
                    /\ ~Given(args.point_plate_ids) => engine.point_plate_ids[k] = 0
                    /\ Given(args.point_begin_times) =>
                            engine.point_begin_times[k] = args.point_begin_times[1][k]

\* a construction that passed the interval and the two time-array checks and
\* failed on the fallback plate IDs
ConstructionRaisedOnPlateIds ==
    /\ engine.phase = "raised"
    /\ args.reconstruction_time_interval > 0
    /\ Len(args.points) = 2
    /\ ~Given(args.point_begin_times)
    /\ Given(args.point_end_times) /\ Len(args.point_end_times[1]) = 2
    /\ Given(args.point_plate_ids) /\ Len(args.point_plate_ids[1]) = 1

\* C7: the engine built from A to B with interval I has the same number of
\* sample times and the same interval magnitude as the engine built from B to
\* A with interval I, and the opposite time step.
TimeSymmetry ==
    engine.phase = "constructed" =>
        LET reversed == ReconstructByTopologies(
                [args EXCEPT !.reconstruction_begin_time = args.reconstruction_end_time,
                             !.reconstruction_end_time = args.reconstruction_begin_time])
        IN  /\ reversed.phase = "constructed"
            /\ reversed.num_times = engine.num_times
            /\ reversed.last_time_index = engine.last_time_index
            /\ reversed.reconstruction_time_interval = engine.reconstruction_time_interval
            /\ reversed.reconstruction_time_step = -engine.reconstruction_time_step

\* a backward engine whose span is not a multiple of the interval
BackwardEngineBuilt ==
    /\ engine.phase = "constructed"
    /\ engine.reconstruction_time_step = -2
    /\ engine.num_times = 2
    /\ engine.reconstruction_begin_time - engine.reconstruction_end_time = 3

----------------------------------------------------------------------------
(* Claims about the engine *)

PointIndices == 1..engine.num_points
CurrentTime == get_current_time(engine, run.current_time_index)
PreviousTime == get_current_time(engine, run.current_time_index - 1)
Active(k) == run.curr_points[k] # NoPoint
Consumed(k) == k \in Range(run.deletedpoints)

\* C1: a point that a collision has deactivated (its index is recorded in
\* deletedpoints) has no current position after that step and after every
\* later step of the run.
MonotonicDeactivation ==
    run.begun => \A k \in PointIndices : Consumed(k) => ~Active(k)

\* a later step has passed since the collision, at a time within the window of
\* the consumed point
ConsumedPointStaysAbsent ==
    /\ run.begun
    /\ \E k \in PointIndices :
        /\ Consumed(k)
        /\ run.prev_points[k] = NoPoint
        /\ InValidTimeRange(engine, k, CurrentTime)

\* C2: without collision detection a point is active at a sample time if and
\* only if that time lies within its window, end time <= t <= begin time.
WindowCorrectness ==
    (run.begun /\ engine.detect_collisions = "None") =>
        \A k \in PointIndices : Active(k) <=> InValidTimeRange(engine, k, CurrentTime)

\* C3: a point that was active outside every resolved polygon before a step
\* is moved by the stage rotation of its fallback plate ID over that step, and
\* is active after it while the time is within its window.
FallbackPlateIdMovesPoint ==
    (run.begun /\ run.current_time_index > 0) =>
        \A k \in PointIndices :
            (/\ run.prev_points[k] # NoPoint
             /\ run.prev_topology_plate_ids[k] = None
             /\ InValidTimeRange(engine, k, CurrentTime))
            => run.curr_points[k] =
                    Rotate(GetRotation(engine.rotation_model, CurrentTime,
                                       engine.point_plate_ids[k], PreviousTime),
                           run.prev_points[k])

\* C5: a step at which the previous and the current topology plate ID of a
\* point are equal does not record the point as consumed, whatever the
\* thresholds of the policy.
NoCollisionOnStableMembership ==
    [][(run.begun /\ run'.begun) =>
        \A k \in DOMAIN run'.curr_points :
            run'.prev_topology_plate_ids[k] = run'.curr_topology_plate_ids[k]
            => Len(SelectSeq(run'.deletedpoints, LAMBDA j : j = k))
                 = Len(SelectSeq(run.deletedpoints, LAMBDA j : j = k))]_vars

\* a point stayed on one plate over a step, under a policy whose velocity
\* threshold is below every velocity difference, near enough to the boundary
StableMemberKept ==
    /\ run.begun
    /\ call # NoCall
    /\ policy.feature_specific_collision_parameters # << >>
    /\ \E k \in PointIndices :
        /\ Active(k)
        /\ run.prev_points[k] # NoPoint
        /\ run.prev_topology_plate_ids[k] = 1
        /\ run.curr_topology_plate_ids[k] = 1
        /\ call.curr_point = run.curr_points[k]
        /\ ~call.collision

\* the position of point k at time index j when every step moves it by the
\* stage rotation of the plate that contained it before the step
RECURSIVE ComposedPosition(_, _)
ComposedPosition(k, j) ==
    IF j = 0 THEN engine.points[k]
    ELSE Rotate(GetRotation(engine.rotation_model, get_current_time(engine, j),
                            trace[j][k], get_current_time(engine, j - 1)),
                ComposedPosition(k, j - 1))

UnrestrictedInsideRun ==
    /\ engine.phase = "done"
    /\ engine.detect_collisions = "None"
    /\ \A k \in PointIndices :
        /\ engine.point_begin_times[k] = PosInf
        /\ engine.point_end_times[k] = NegInf
        /\ \A j \in DOMAIN trace : trace[j][k] # None
    /\ Abs(engine.reconstruction_end_time - engine.reconstruction_begin_time)
            % args.reconstruction_time_interval = 0

\* C8: a finished run without collision detection and without window
\* restriction, all points inside a polygon at every sample time, over a span
\* that is a multiple of the interval, ends at the end time with every point
\* active at the composition of the stage rotations of its plates, no point
\* consumed and the policy never called.
CollisionFreeFullRun ==
    UnrestrictedInsideRun =>
        /\ CurrentTime = engine.reconstruction_end_time
        /\ run.current_time_index = engine.last_time_index
        /\ \A k \in PointIndices :
            run.curr_points[k] = ComposedPosition(k, run.current_time_index)
        /\ get_active_current_points(run) = run.curr_points
        /\ Len(get_active_current_points(run)) = engine.num_points
        /\ run.deletedpoints = << >>
        /\ call = NoCall
        /\ policy = DEFAULT_COLLISION

\* such a run of two points over two steps, the first point changing plate
TwoStepRunFinished ==
    /\ UnrestrictedInsideRun
    /\ engine.num_points = 2
    /\ run.current_time_index = 2
    /\ trace[1][1] # trace[2][1]

----------------------------------------------------------------------------
(* Claims about the run from 10 Ma to 0 Ma *)

SampleTimes == {get_current_time(engine, j) : j \in 0..engine.last_time_index}

\* t is nearer to 5 Ma than every other sample time of the run
NearestTo5(t) == \A u \in SampleTimes \ {t} : Abs(t - 5) < Abs(u - 5)

\* C9 as claimed: the point whose window is the instant 5 Ma is active at the
\* sample time nearest 5 Ma and at no other sample time.
ActiveAtNearestSampleTime ==
    run.begun => (Active(1) <=> NearestTo5(CurrentTime))

\* C9 as amended: the point whose window is the instant 5 Ma is active at a
\* sample time if and only if that sample time is 5 Ma itself; it is active
\* at no sample time of a run that does not sample 5 Ma.
ActiveAtSampleTime5Only ==
    run.begun => (Active(1) <=> CurrentTime = 5)

\* the point is active at the sixth sample time of the run with interval 1
ActiveAt5 ==
    /\ run.begun
    /\ run.current_time_index = 5
    /\ CurrentTime = 5
    /\ Active(1)

----------------------------------------------------------------------------
(* Claims about the kinematic policy *)

\* the velocity thresholds a call tests the relative velocity against
VelocityThresholdsOf(c) ==
    IF policy.feature_specific_collision_parameters = << >>
    THEN {policy.global_collision_parameters[1]}
    ELSE {DictGet(policy.feature_specific_collision_parameters, FeatureType(segment),
                  policy.global_collision_parameters)[1] :
            segment \in Range(SubSegments(c.prev_resolved_plate_boundary))}

\* C10: a call in which every velocity threshold of the policy is greater
\* than or equal to the relative velocity reports no collision, whatever the
\* distance thresholds, the interval, the distance to the previous boundary
\* and the plate IDs.
UnreachableVelocityThreshold ==
    (/\ call # NoCall
     /\ \/ call.delta_velocity_magnitude = None
        \/ \A threshold \in VelocityThresholdsOf(call) :
                threshold >= call.delta_velocity_magnitude)
    => ~call.collision

\* a plate change whose relative velocity equals the velocity threshold, the
\* previous point within the distance threshold of the previous boundary
VelocityAtThreshold ==
    /\ call # NoCall
    /\ call.delta_velocity_magnitude = 20
    /\ policy.feature_specific_collision_parameters = << >>
    /\ policy.global_collision_parameters = <<20, 10>>
    /\ BoundaryDistance(call.prev_resolved_plate_boundary) = 25
    /\ call.reconstruction_time_interval = 1
    /\ ~call.collision

----------------------------------------------------------------------------
(* Claims about engines sharing a policy *)

\* C4: for fixed constructor inputs, fixed collaborators and a deterministic
\* policy, reconstruct() returns the same active points every time it is run,
\* on the same engine or on another engine built from the same inputs, and
\* whichever engines were run before it.
Determinism ==
    \A first \in history, second \in history :
        first[1] = second[1] => first[2] = second[2]

----------------------------------------------------------------------------
(* Claims about the output of a run *)

ActiveIndices == {k \in PointIndices : Active(k)}

\* the j-th smallest index of an active point
NthActive(j) ==
    CHOOSE k \in ActiveIndices : Cardinality({i \in ActiveIndices : i <= k}) = j

\* C11: the current-position buffer has exactly one entry per input point, at
\* the point's index, each entry absent or a position of that very point;
\* reconstruct() returns the non-absent entries of the buffer in point order,
\* as many as there are points active at the final step.
OutputShape ==
    /\ run.begun =>
        /\ DOMAIN get_all_current_points(run) = PointIndices
        /\ \A k \in ActiveIndices : Head(run.curr_points[k]) = Head(engine.points[k])
    /\ engine.phase = "done" =>
        \E returned \in history :
            /\ history = {returned}
            /\ returned[1] = args
            /\ Len(returned[2]) = Cardinality(ActiveIndices)
            /\ \A j \in 1..Len(returned[2]) :
                    returned[2][j] = run.curr_points[NthActive(j)]

\* a run of two points that ends with the first point inactive and the second
\* active: the second point's position alone is returned
SecondPointAloneReturned ==
    /\ engine.phase = "done"
    /\ engine.num_points = 2
    /\ ~Active(1)
    /\ Active(2)
    /\ Len(run.curr_points[2]) > 1
    /\ history = {<<args, <<run.curr_points[2]>>>>}

----------------------------------------------------------------------------
(* Claims about the engine with the continental policy *)

\* C12: with the continental policy (nothing chained, so that every consumed
\* point was consumed by the mask test), the indices the in-continent accessor
\* reports are exactly those of the points the mask test found inside a
\* continent, and the positions it reports are theirs.
InContinentAccessor ==
    (run.begun /\ IsContinentCollision(policy) /\ ~Chained(policy)) =>
        LET reported == get_in_continent_indices(run)
        IN  /\ {index \in Range(reported[2]) : index # None}
                = {k \in PointIndices : Consumed(k)}
            /\ \A k \in PointIndices : reported[1][k] # NoPoint <=> Consumed(k)

----------------------------------------------------------------------------
(* Claims about the continental policy *)

\* C13: a query at a time whose grid cannot be loaded raises, and a query
\* that returns a verdict has sampled a grid loaded for the time of the query,
\* never a grid loaded for another time and never no grid.
RasterUnavailablePropagated ==
    (call # NoCall /\ IsContinentCollision(policy)) =>
        /\ policy.grd_output_dir[call.time] = Unavailable => call.raised
        /\ ~call.raised =>
            /\ call.sampled # NoRaster
            /\ call.sampled.time = call.time

----------------------------------------------------------------------------
(* Claims about failing collaborators *)

\* the rotation model has no rotation for the plate of an active point
RotationFails ==
    \E k \in PointIndices :
        /\ Active(k)
        /\ run.curr_topology_plate_ids[k] # None
        /\ RotationMissing(engine.rotation_model, run.curr_topology_plate_ids[k])

\* the topologies do not resolve at the next sample time
ResolverFails ==
    TopologyMissing(engine.topology_features,
                    get_current_time(engine, run.current_time_index + 1))

\* no position and no cached stage rotation comes from a rotation that the
\* rotation model does not have
NoSubstituteRotation(r, pol) ==
    /\ \A k \in DOMAIN r.curr_points : \A j \in 2..Len(r.curr_points[k]) :
            ~RotationMissing(r.curr_points[k][j][1], r.curr_points[k][j][3])
    /\ \A plate_id \in DOMAIN pol.velocity_stage_rotation_dict :
            ~RotationMissing(pol.velocity_stage_rotation_dict[plate_id][1], plate_id)

\* C14: when the rotation model or the topology resolver fails during a step,
\* the step raises: the run is over, its positions and clock are those before
\* the failing call or carry no substituted rotation, and reconstruct()
\* returns nothing for that run.
CollaboratorFailuresSurface ==
    [][/\ (engine.phase = "running" /\ ~NoNextTime(engine, run)
                /\ (RotationFails \/ ResolverFails))
            => /\ engine'.phase = "failed"
               /\ history' = history
               /\ RotationFails =>
                    /\ run'.curr_points = run.curr_points
                    /\ run'.current_time_index = run.current_time_index
       /\ engine.phase = "failed" => engine'.phase = "failed" /\ history' = history
       /\ engine'.phase \in {"running", "failed", "done"}
            => NoSubstituteRotation(run', policy')]_vars

\* a run that raised in its second step, on the rotation of plate 2, and
\* returned nothing
RaisedOnMissingRotation ==
    /\ engine.phase = "failed"
    /\ run.current_time_index = 1
    /\ RotationFails
    /\ ~ResolveFailure(engine, run)
    /\ history = {}

----------------------------------------------------------------------------
(* Claims about points outside every resolved boundary *)

\* point k is deactivated by a collision in this step
NewlyConsumed(k) ==
    /\ k \in Range(run'.deletedpoints)
    /\ k \notin Range(run.deletedpoints)

\* the previous or the current plate ID of point k is absent after this step
OutsideBoundaries(k) ==
    \/ run'.prev_topology_plate_ids[k] = None
    \/ run'.curr_topology_plate_ids[k] = None

\* C15 as stated: whatever the policy, a point whose previous or current plate
\* ID is absent is not deactivated by a collision at that step.
OutsidePointsNeverCollide ==
    [][engine.phase = "running" =>
            \A k \in PointIndices : NewlyConsumed(k) => ~OutsideBoundaries(k)]_vars

\* C15 amended: a point whose previous or current plate ID is absent is
\* deactivated by a collision at a step only by the mask test of the
\* continental policy, the grid of the new current time being above 0.5 at the
\* point; the kinematic policy, alone or chained, never deactivates it.
OutsidePointsCollideOnlyInContinent ==
    [][engine.phase = "running" => \A k \in PointIndices :
            (NewlyConsumed(k) /\ OutsideBoundaries(k)) =>
                /\ IsContinentCollision(policy')
                /\ LET file == policy'.grd_output_dir[
                                    get_current_time(engine, run'.current_time_index)]
                   IN  file # Unavailable /\ file.values[k] > ContinentThreshold]_vars

\* the mask test has just deactivated a point that lies outside every boundary
OutsidePointInContinent ==
    /\ run.begun
    /\ call # NoCall
    /\ call.collision
    /\ call.curr_topology_plate_id = None
    /\ call.chained_arguments = << >>
    /\ Consumed(Head(call.curr_point))
    /\ call.sampled.values[Head(call.curr_point)] = 10


NineArguments(c) ==
    <<c.rotation_model, c.time, c.reconstruction_time_interval,
      c.prev_point, c.curr_point,
      c.prev_topology_plate_id, c.prev_resolved_plate_boundary,
      c.curr_topology_plate_id, c.curr_resolved_plate_boundary>>

\* the chained policy called on the nine arguments of the recorded call
ChainVerdict(chain, c) ==
    DefaultCollision(chain, c.rotation_model, c.time, c.reconstruction_time_interval, c.prev_point, c.curr_point, c.prev_topology_plate_id, c.prev_resolved_plate_boundary, c.curr_topology_plate_id, c.curr_resolved_plate_boundary)

\* the verdict v of the chained policy is what the recorded call returned
SameVerdict(c, v) == c.collision = v.collision /\ c.raised = v.raised

----------------------------------------------------------------------------
(* feature_filter.py and download.py: filters of feature collections and of
   file lists. A feature is [id, plate_id, valid_time], valid_time << >> when
   get_valid_time(None) returns None; a file path is the sequence of its
   components. *)

MaxList == 3

\* PlateIDFilter.should_keep
PlateIDFilter(self, feature) ==
    IF ~self.exclude /\ feature.plate_id \in self.pids THEN TRUE
    ELSE IF self.exclude /\ feature.plate_id \notin self.pids THEN TRUE
    ELSE FALSE

\* BirthAgeFilter.should_keep
BirthAgeFilter(self, feature) ==
    LET valid_time == feature.valid_time
    IN  IF valid_time # << >>
        THEN IF self.keep_older /\ valid_time[1] > self.age THEN TRUE
             ELSE IF ~self.keep_older /\ valid_time[1] < self.age THEN TRUE
             ELSE FALSE
        ELSE FALSE

\* filter.should_keep(feature), dispatched on the class of the filter
should_keep(filter, feature) ==
    IF "pids" \in DOMAIN filter
    THEN PlateIDFilter(filter, feature)
    ELSE BirthAgeFilter(filter, feature)

\* the flag when only the first filter is asked
KeepFlagOfFirst(filters, feature) ==
    filters = << >> \/ should_keep(Head(filters), feature)

RECURSIVE KeepFlag(_, _)
\* keep_flag after the inner loop, which breaks at the first filter that
\* does not keep the feature
KeepFlag(filters, feature) ==
    IF filters = << >> THEN TRUE
    ELSE IF ~should_keep(Head(filters), feature) THEN FALSE
    ELSE KeepFlag(Tail(filters), feature)

RECURSIVE filter_feature_collection(_, _)
filter_feature_collection(feature_collection, filters) ==
    IF feature_collection = << >> THEN << >>
    ELSE LET feature == Head(feature_collection)
             rest == filter_feature_collection(Tail(feature_collection), filters)
         IN  IF KeepFlag(filters, feature) THEN <<feature>> \o rest ELSE rest

\* fname.find("__MACOSX"): the position of the first occurrence, or -1
Find(fname, part) ==
    IF \E i \in DOMAIN fname : fname[i] = part
    THEN Min({i \in DOMAIN fname : fname[i] = part}) - 1
    ELSE -1

\* fnames.remove(fname): the list without the first element equal to fname
Remove(fnames, fname) ==
    LET first == Min({i \in DOMAIN fnames : fnames[i] = fname})
    IN  SubSeq(fnames, 1, first - 1) \o SubSeq(fnames, first + 1, Len(fnames))

RECURSIVE IgnoreLoop(_, _)
\* for fname in fnames, the iterator standing before position i of the list
\* the body removes from
IgnoreLoop(fnames, i) ==
    IF i > Len(fnames) THEN fnames
    ELSE IF Find(fnames[i], "__MACOSX") # -1
    THEN IgnoreLoop(Remove(fnames, fnames[i]), i + 1)
    ELSE IgnoreLoop(fnames, i + 1)

ignore_macOSX(filenames) == IgnoreLoop(filenames, 1)

RECURSIVE ListsOf(_, _)
\* the lists of at most n elements of S
ListsOf(S, n) ==
    IF n = 0 THEN {<< >>}
    ELSE LET shorter == ListsOf(S, n - 1)
         IN  shorter \cup {<<x>> \o l : x \in S, l \in {m \in shorter : Len(m) = n - 1}}

Features ==
    {[id |-> 1, plate_id |-> 101, valid_time |-> <<10, 0>>],
     [id |-> 2, plate_id |-> 201, valid_time |-> <<5, 0>>],
     [id |-> 3, plate_id |-> 101, valid_time |-> << >>],
     [id |-> 4, plate_id |-> 301, valid_time |-> <<PosInf, 5>>]}

Filters ==
    {[pids |-> {101, 201}, exclude |-> x] : x \in BOOLEAN}
        \cup {[age |-> a, keep_older |-> k] : a \in {0, 5, 10}, k \in BOOLEAN}

FileNames ==
    {<<"a.gpml">>, <<"data", "b.gpml">>,
     <<"__MACOSX", "a.gpml">>, <<"data", "__MACOSX", "b.gpml">>}

\* the arguments of one call of filter_feature_collection or of ignore_macOSX
ToolArgs ==
    {[feature_collection |-> c, filters |-> f] :
        c \in ListsOf(Features, MaxList), f \in ListsOf(Filters, 2)}
        \cup {[filenames |-> n] : n \in ListsOf(FileNames, MaxList)}

InitTools ==
    /\ args \in ToolArgs
    /\ engine = [phase |-> "new"]
    /\ run = NoRun
    /\ policy = NoPolicy
    /\ call = NoCall
    /\ trace = << >>
    /\ history = {}

\* filter_feature_collection(feature_collection, filters)
FilterFeatureCollection ==
    /\ ~call.made
    /\ "filters" \in DOMAIN args
    /\ call' = [made |-> TRUE, function |-> "filter_feature_collection",
                returned |-> filter_feature_collection(args.feature_collection, args.filters)]
    /\ UNCHANGED <<args, engine, run, policy, trace, history>>

\* ignore_macOSX(filenames)
IgnoreMacOSX ==
    /\ ~call.made
    /\ "filenames" \in DOMAIN args
    /\ call' = [made |-> TRUE, function |-> "ignore_macOSX",
                returned |-> ignore_macOSX(args.filenames)]
    /\ UNCHANGED <<args, engine, run, policy, trace, history>>

NextTools == FilterFeatureCollection \/ IgnoreMacOSX

SpecTools == InitTools /\ [][NextTools]_vars

\* C18: filter_feature_collection keeps a feature if and only if every filter
\* of the list returns true from should_keep for it; the kept features are in
\* their original order, each exactly once; an empty filter list keeps every
\* feature.
KeepsWhatEveryFilterKeeps ==
    (call.made /\ call.function = "filter_feature_collection") =>
        /\ call.returned =
                SelectSeq(args.feature_collection,
                          LAMBDA feature : \A i \in DOMAIN args.filters :
                                                should_keep(args.filters[i], feature))
        /\ args.filters = << >> => call.returned = args.feature_collection

\* Three features and two filters: the first filter keeps all three, the
\* second drops the middle one.
MiddleFeatureDropped ==
    /\ call.made
    /\ call.function = "filter_feature_collection"
    /\ Len(args.feature_collection) = 3
    /\ Len(args.filters) = 2
    /\ \A i \in 1..3 : should_keep(args.filters[1], args.feature_collection[i])
    /\ ~should_keep(args.filters[2], args.feature_collection[2])
    /\ call.returned = <<args.feature_collection[1], args.feature_collection[3]>>

\* C19: for every feature that has a valid time and every age criterion, the
\* BirthAgeFilter with keep_older=False returns the negation of what the one
\* with keep_older=True returns, so the feature is kept by exactly one of them.
KeepYoungerNegatesKeepOlder ==
    (/\ call.made
     /\ call.function = "filter_feature_collection"
     /\ Len(args.filters) = 1
     /\ "age" \in DOMAIN args.filters[1]) =>
        \A i \in DOMAIN args.feature_collection :
            LET feature == args.feature_collection[i]
                kept == \E j \in DOMAIN call.returned : call.returned[j] = feature
            IN  feature.valid_time # << >> =>
                    kept = ~BirthAgeFilter([args.filters[1] EXCEPT !.keep_older = ~@], feature)

\* C20: ignore_macOSX returns the input list without the paths that contain
\* "__MACOSX": none of them is in the result and every other path is, in the
\* original order.
MacOSXPathsIgnored ==
    (call.made /\ call.function = "ignore_macOSX") =>
        call.returned =
            SelectSeq(args.filenames, LAMBDA fname : \A i \in DOMAIN fname : fname[i] # "__MACOSX")


----------------------------------------------------------------------------
(* Claims about the buffers, the policies and the caches *)

\* C21: after every step the current position of each point is absent, or its
\* seed position when the step activated the point for the first time, or the
\* stage rotation of this step (of the plate that contained the point, or of
\* its fallback plate ID) applied to its position at the preceding sample
\* time; it is never a value left in the re-used buffer by an older step.
NoStaleRead ==
    [][(engine.phase = "running" /\ run'.current_time_index = run.current_time_index + 1) =>
        \A k \in PointIndices :
            \/ run'.curr_points[k] = NoPoint
            \/ /\ run'.curr_points[k] = engine.points[k]
               /\ ~run.point_has_been_activated[k]
               /\ run'.point_has_been_activated[k]
            \/ /\ run.curr_points[k] # NoPoint
               /\ \E plate_id \in {run.curr_topology_plate_ids[k], engine.point_plate_ids[k]} :
                    run'.curr_points[k] =
                        Rotate(GetRotation(engine.rotation_model,
                                           get_current_time(engine, run'.current_time_index),
                                           plate_id, CurrentTime),
                               run.curr_points[k])]_vars


\* the relative velocity, at the current point of call c, of the plates of
\* its two plate IDs: what the rotation model handed to the call gives for
\* the unit time span ending at the time of the call
RelativeVelocity(c) ==
    Abs(Velocity(GetRotation(c.rotation_model, c.time + 1, c.curr_topology_plate_id, c.time), c.curr_point)
        - Velocity(GetRotation(c.rotation_model, c.time + 1, c.prev_topology_plate_id, c.time), c.curr_point))

\* C22: a DefaultCollision with global thresholds only reports a collision if
\* and only if the previous and the current plate ID are both present and
\* differ, the relative velocity of the two plates at the current point is
\* strictly greater than the velocity threshold, and the distance of the
\* previous point to the previous boundary is within (distance threshold +
\* relative velocity) x interval; the current boundary has no influence.
KinematicDecision ==
    (call.made /\ policy.feature_specific_collision_parameters = << >>) =>
        (call.collision <=>
            /\ PlateTransition(call.prev_topology_plate_id, call.curr_topology_plate_id)
            /\ RelativeVelocity(call) > policy.global_collision_parameters[1]
            /\ BoundaryDistance(call.prev_resolved_plate_boundary)
                <= (policy.global_collision_parameters[2] + RelativeVelocity(call))
                        * call.reconstruction_time_interval)


\* C23: with a non-empty per-feature-type mapping, a call whose plate IDs are
\* present and differ reports a collision if and only if some sub-segment of
\* the previous boundary satisfies the velocity and the distance test with its
\* own thresholds: the entry of the mapping for its feature type, or the
\* global pair when the type is not in the mapping.
PerFeatureTypeDecision ==
    (/\ call.made
     /\ policy.feature_specific_collision_parameters # << >>
     /\ PlateTransition(call.prev_topology_plate_id, call.curr_topology_plate_id)) =>
        (call.collision <=>
            \E segment \in Range(SubSegments(call.prev_resolved_plate_boundary)) :
                LET thresholds == DictGet(policy.feature_specific_collision_parameters,
                                          FeatureType(segment),
                                          policy.global_collision_parameters)
                IN  /\ RelativeVelocity(call) > thresholds[1]
                    /\ SegmentDistance(segment)
                        <= (thresholds[2] + RelativeVelocity(call))
                                * call.reconstruction_time_interval)


\* C24: in a step the clock advances first, then the window activates and
\* deactivates, then membership is resolved, then collisions are tested, and
\* the policy is called only for points active at both the previous and the
\* current slot: a point that leaves its window in the step is absent after it
\* without being recorded as consumed, a point that enters its window for the
\* first time is at its seed position after it without being tested, and a
\* call of the policy in the step has the new time, an active previous point
\* and the plate ID resolved in this step.
EvaluationOrder ==
    [][(engine.phase = "running" /\ run'.current_time_index = run.current_time_index + 1) =>
        /\ \A k \in PointIndices :
            /\ (Active(k) /\ ~InValidTimeRange(engine, k, get_current_time(engine, run'.current_time_index)))
                    => (run'.curr_points[k] = NoPoint /\ ~NewlyConsumed(k))
            /\ (~run.point_has_been_activated[k]
                    /\ InValidTimeRange(engine, k, get_current_time(engine, run'.current_time_index)))
                    => (run'.curr_points[k] = engine.points[k] /\ ~NewlyConsumed(k))
            /\ NewlyConsumed(k) => (Active(k) /\ call'.made)
        /\ call' # call =>
            /\ call'.time = get_current_time(engine, run'.current_time_index)
            /\ \E k \in PointIndices :
                /\ Active(k)
                /\ InValidTimeRange(engine, k, call'.time)
                /\ call'.prev_point = run.curr_points[k]
                /\ call'.prev_point = run'.prev_points[k]
                /\ call'.prev_topology_plate_id = run.curr_topology_plate_ids[k]
                /\ call'.curr_topology_plate_id = run'.curr_topology_plate_ids[k]]_vars

\* A step with collision detection in which the first point left its window
\* and the second point, active before and after, was passed to the policy.
WindowBeforeCollision ==
    /\ engine.phase = "running"
    /\ engine.num_points = 2
    /\ run.current_time_index > 0
    /\ run.prev_points[1] # NoPoint
    /\ ~InValidTimeRange(engine, 1, CurrentTime)
    /\ ~Active(1)
    /\ ~Consumed(1)
    /\ call.made
    /\ call.time = CurrentTime
    /\ call.prev_point = run.prev_points[2]


\* C25: between steps, for every point and for the previous and the current
\* slot, the topology plate ID and the boundary are absent whenever the
\* position is absent, and in the current slot the plate ID is present exactly
\* when the boundary is.
SlotConsistency ==
    (run.begun /\ engine.phase \in {"running", "done"}) =>
        \A k \in PointIndices :
            /\ run.curr_points[k] = NoPoint =>
                    /\ run.curr_topology_plate_ids[k] = None
                    /\ run.curr_resolved_plate_boundaries[k] = NoBoundary
            /\ run.prev_points[k] = NoPoint =>
                    /\ run.prev_topology_plate_ids[k] = None
                    /\ run.prev_resolved_plate_boundaries[k] = NoBoundary
            /\ run.curr_topology_plate_ids[k] # None
                    <=> run.curr_resolved_plate_boundaries[k] # NoBoundary


\* C26: the number of sample times is 1 + floor(|end - begin| / interval), and
\* 2 when that is 1; it is always at least 2. When the interval is larger than
\* the span the run has exactly two sample times, the begin and the end time,
\* and the interval handed to the collision policy is the span |end - begin|.
StepCountAndClamp ==
    engine.phase = "constructed" =>
        LET span == Abs(args.reconstruction_end_time - args.reconstruction_begin_time)
            interval == args.reconstruction_time_interval
            count == 1 + (span \div interval)
        IN  /\ engine.num_times = IF count = 1 THEN 2 ELSE count
            /\ engine.num_times >= 2
            /\ engine.last_time_index = engine.num_times - 1
            /\ interval > span =>
                /\ engine.num_times = 2
                /\ get_current_time(engine, 0) = args.reconstruction_begin_time
                /\ get_current_time(engine, engine.last_time_index) = args.reconstruction_end_time
                /\ engine.reconstruction_time_interval = span
            /\ interval <= span => engine.reconstruction_time_interval = interval

\* an engine built with an interval of 2 over a span of 1, backward in time
IntervalLargerThanSpan ==
    /\ engine.phase = "constructed"
    /\ args.reconstruction_time_interval = 2
    /\ args.reconstruction_begin_time - args.reconstruction_end_time = 1
    /\ engine.reconstruction_time_step = -1
    /\ engine.reconstruction_time_interval = 1


\* C27: reconstruct() terminates. A call of reconstruct_to_next_time makes no
\* progress exactly when the clock is at the last time index or every point
\* has been activated and none is active, and otherwise advances the time
\* index by one; the time index never exceeds the last index and a run takes
\* at most (number of sample times - 1) steps.
Termination ==
    /\ [](run.begun =>
            /\ run.current_time_index <= engine.last_time_index
            /\ Len(trace) - 1 <= engine.num_times - 1)
    /\ [][engine.phase = "running" =>
            IF \/ run.current_time_index = engine.last_time_index
               \/ \A k \in PointIndices : run.point_has_been_activated[k] /\ ~Active(k)
            THEN engine'.phase = "done" /\ run' = run
            ELSE run'.current_time_index = run.current_time_index + 1]_vars
    /\ (engine.phase = "running") ~> (engine.phase = "done")

\* A run that returned before the last time index, its only point activated
\* and deactivated again by its window.
RunReturnedEarly ==
    /\ engine.phase = "done"
    /\ engine.num_points = 1
    /\ run.current_time_index < engine.last_time_index
    /\ run.point_has_been_activated[1]
    /\ ~Active(1)
    /\ ~Consumed(1)


\* C28: the stage-rotation cache of the engine starts empty at every step:
\* within a step the rotation model is asked exactly once for each plate ID
\* that contains an active point, points sharing a plate ID are advanced by
\* the same rotation, and the rotation applied to a point is the one of this
\* step's time pair (current time -> current time + signed step), never one
\* of an earlier step.
PerStepRotationCache ==
    [][(engine.phase = "running" /\ run'.current_time_index = run.current_time_index + 1) =>
        LET cache == reconstruct_stage_rotation_dict(engine, run)
            located == {k \in PointIndices :
                            Active(k) /\ run.curr_topology_plate_ids[k] # None}
        IN  /\ \A i, j \in DOMAIN cache.asked : cache.asked[i] = cache.asked[j] => i = j
            /\ Range(cache.asked) = {run.curr_topology_plate_ids[k] : k \in located}
            /\ \A k \in located :
                \/ run'.curr_points[k] = NoPoint
                \/ run'.curr_points[k] =
                        Rotate(GetRotation(engine.rotation_model,
                                           CurrentTime + engine.reconstruction_time_step,
                                           run.curr_topology_plate_ids[k], CurrentTime),
                               run.curr_points[k])]_vars

\* The second step of a run has moved two points of plate 1 by one rotation,
\* the one from the second to the third sample time.
SharedRotationOfSecondStep ==
    /\ engine.phase = "running"
    /\ engine.num_points = 2
    /\ run.current_time_index = 2
    /\ run.prev_topology_plate_ids = <<1, 1>>
    /\ \A k \in PointIndices :
            /\ Active(k)
            /\ run.curr_points[k] =
                    Rotate(GetRotation(engine.rotation_model, CurrentTime, 1, PreviousTime),
                           run.prev_points[k])


\* C29: in every call of a DefaultCollision shared by several engines, the
\* velocity stage rotation used for each of the two plate IDs is the one the
\* rotation model handed to that call returns for the plate ID and the time
\* of the call.
VelocityCacheCoherent ==
    (/\ call.made
     /\ ~call.raised
     /\ PlateTransition(call.prev_topology_plate_id, call.curr_topology_plate_id)) =>
        \A plate_id \in {call.prev_topology_plate_id, call.curr_topology_plate_id} :
            policy.velocity_stage_rotation_dict[plate_id]
                = GetRotation(call.rotation_model, call.time + 1, plate_id, call.time)


\* C30: the continental policy loads a raster exactly when the time of the
\* query differs from the time of the raster it holds (the first query always
\* loads), so queries at the time of the raster held do not load again; after
\* every query that returns, the raster held is the one of the time of the
\* query and the value was sampled from it.
OneSlotRasterCache ==
    [][(call'.made /\ ~call'.raised) =>
        /\ policy'.grid_time = call'.time
        /\ policy'.f = policy.grd_output_dir[call'.time]
        /\ call'.sampled = policy'.f
        /\ IF policy.f # NoRaster /\ policy.f.time = call'.time
           \* no load: the deletion counter goes on
           THEN policy'.continent_deletion_count >= policy.continent_deletion_count
           \* a load: the deletion counter starts again
           ELSE policy'.continent_deletion_count \in {0, 1}]_vars


\* C31 (as stated): the deletion counter increases by exactly one on every
\* query in which the continental policy itself reports a collision and is
\* left unchanged by every other query, so that it equals the number of
\* continental collisions reported.
DeletionCounterCumulative ==
    [][(call'.made /\ ~call'.raised /\ policy.continent_deletion_count # None) =>
        policy'.continent_deletion_count =
            policy.continent_deletion_count
                + (IF Sample(call'.sampled, call'.curr_point) > ContinentThreshold
                   THEN 1 ELSE 0)]_vars

\* C31 (amended): a query at a time other than the one of the query before
\* loads a raster and sets the counter to zero; every query then adds exactly
\* one when the continental policy itself reports a collision (sample above
\* 0.5) and nothing otherwise, so the counter is the number of continental
\* collisions reported since the last load; a query that fails to load leaves
\* the counter as it is, and the counter never influences the verdict.
DeletionCounterSinceLoad ==
    [][call'.made =>
        IF call'.error \in {"RasterUnavailable", "AttributeError"}
        THEN policy'.continent_deletion_count = policy.continent_deletion_count
        ELSE /\ policy'.continent_deletion_count =
                    (IF call'.time # policy.grid_time
                     THEN 0 ELSE policy.continent_deletion_count)
                    + (IF Sample(call'.sampled, call'.curr_point) > ContinentThreshold
                       THEN 1 ELSE 0)
             /\ call'.collision =
                    ContinentCollision([policy EXCEPT !.continent_deletion_count = 7], call'.rotation_model, call'.time, call'.reconstruction_time_interval, call'.prev_point, call'.curr_point, call'.prev_topology_plate_id, call'.prev_resolved_plate_boundary, call'.curr_topology_plate_id, call'.curr_resolved_plate_boundary).collision]_vars

\* Two queries at the time of the raster held have reported a continental
\* collision.
TwoContinentalCollisionsCounted ==
    /\ call.made
    /\ IsContinentCollision(policy)
    /\ call.collision
    /\ call.chained_arguments = << >>
    /\ policy.grid_time = call.time
    /\ policy.continent_deletion_count = 2


----------------------------------------------------------------------------
(* Claims about the independence of the points *)

\* the engine built from point i alone
PointAlone(self, i) ==
    [self EXCEPT !.points = <<self.points[i]>>,
                 !.num_points = 1,
                 !.point_begin_times = <<self.point_begin_times[i]>>,
                 !.point_end_times = <<self.point_end_times[i]>>,
                 !.point_plate_ids = <<self.point_plate_ids[i]>>]

\* the buffers of the run of point i alone that hold what r holds for point i
RunOfPoint(r, i) ==
    [begun |-> TRUE,
     current_time_index |-> r.current_time_index,
     prev_points |-> <<r.prev_points[i]>>,
     curr_points |-> <<r.curr_points[i]>>,
     next_points |-> <<r.next_points[i]>>,
     point_has_been_activated |-> <<r.point_has_been_activated[i]>>,
     num_activated_points |-> IF r.point_has_been_activated[i] THEN 1 ELSE 0,
     prev_topology_plate_ids |-> <<r.prev_topology_plate_ids[i]>>,
     curr_topology_plate_ids |-> <<r.curr_topology_plate_ids[i]>>,
     prev_resolved_plate_boundaries |-> <<r.prev_resolved_plate_boundaries[i]>>,
     curr_resolved_plate_boundaries |-> <<r.curr_resolved_plate_boundaries[i]>>,
     in_continent_indices |-> <<r.in_continent_indices[i]>>,
     in_continent_points |-> <<r.in_continent_points[i]>>,
     deletedpoints |-> IF i \in Range(r.deletedpoints) THEN <<1>> ELSE << >>]

\* what one step of the run of point i alone makes of the buffers of point i,
\* the locator answering for the point as it did in the run of all points
StepOfPointAlone(self, r, pol, last_call, located, i) ==
    IF NoNextTime(PointAlone(self, i), RunOfPoint(r, i))
    THEN RunOfPoint(r, i)
    ELSE reconstruct_to_next_time(PointAlone(self, i), RunOfPoint(r, i),
                                  pol, last_call, <<located[i]>>).run

\* C32: within a run the state of point i at each sample time (active or not,
\* position, plate ID) is the one the run of point i alone has at that time,
\* whatever the other points are and wherever point i stands among them:
\* begin_reconstruction and every step that returns leave in the slots of
\* point i what they leave in the run of point i alone; where that run has
\* stopped because its point is spent, the point stays absent.
CrossPointIndependence ==
    [][/\ (engine.phase = "constructed" /\ engine'.phase = "running") =>
            \A i \in 1..engine.num_points :
                RunOfPoint(run', i) =
                    begin_reconstruction(PointAlone(engine, i),
                                         <<run'.curr_resolved_plate_boundaries[i]>>)
       /\ (engine.phase = "running" /\ engine'.phase = "running"
                /\ run'.current_time_index # run.current_time_index) =>
            \A i \in 1..engine.num_points :
                IF NoNextTime(PointAlone(engine, i), RunOfPoint(run, i))
                THEN /\ run'.curr_points[i] = NoPoint
                     /\ run'.curr_topology_plate_ids[i] = None
                     /\ run'.point_has_been_activated[i]
                     /\ (i \in Range(run'.deletedpoints)) = (i \in Range(run.deletedpoints))
                ELSE RunOfPoint(run', i) =
                        StepOfPointAlone(engine, run, policy, call,
                                         run'.curr_resolved_plate_boundaries, i)]_vars

\* In a run of two points the first has been consumed by a collision and the
\* second has been moved on to a later sample time.
SecondPointMovedWhileFirstConsumed ==
    /\ engine.phase = "running"
    /\ engine.num_points = 2
    /\ run.current_time_index >= 1
    /\ 1 \in Range(run.deletedpoints)
    /\ run.curr_points[2] # NoPoint
    /\ Len(run.curr_points[2]) > 1


----------------------------------------------------------------------------
(* Claims about the early return *)

RECURSIVE SteppedToLastTime(_, _, _, _)
\* reconstruct_to_next_time without the test 'all points activated and none
\* active', called until the last time index; no point is in a resolved
\* topology unless it is active
SteppedToLastTime(self, r, pol, last_call) ==
    IF r.current_time_index >= self.last_time_index THEN r
    ELSE SteppedToLastTime(
            self,
            reconstruct_to_next_time(self, r, pol, last_call,
                                     [k \in 1..self.num_points |-> NoBoundary]).run,
            pol, last_call)

\* C33: when reconstruct_to_next_time stops before the last time index because
\* every point has been activated and none is active, stepping on to the last
\* time index without that test returns the same output: no point becomes
\* active again at any later sample time.
EarlyStopSound ==
    (/\ engine.phase \in {"running", "done"}
     /\ run.current_time_index < engine.last_time_index
     /\ NoNextTime(engine, run))
        => /\ get_active_current_points(SteppedToLastTime(engine, run, policy, call))
                = get_active_current_points(run)
           /\ get_all_current_points(SteppedToLastTime(engine, run, policy, call))
                = get_all_current_points(run)

\* The run has stopped before the last time index with a point consumed by a
\* collision whose window is still open at the last sample time.
StoppedEarlyInsideWindow ==
    /\ engine.phase = "done"
    /\ run.current_time_index < engine.last_time_index
    /\ \E k \in 1..engine.num_points :
        /\ k \in Range(run.deletedpoints)
        /\ InValidTimeRange(engine, k, get_current_time(engine, engine.last_time_index))


----------------------------------------------------------------------------
(* Claims about the clock *)

----------------------------------------------------------------------------
(* Claims about the list of consumed points *)

\* the answer of the policy for point k alone in this step: the point was
\* active before the step, is still in its window, and the policy called with
\* its slots reports a collision
PolicyCollides(k) ==
    /\ CollisionsDetected(engine)
    /\ run.curr_points[k] # NoPoint
    /\ NextPoint(engine, run, k) # NoPoint
    /\ InValidTimeRange(engine, k, get_current_time(engine, run'.current_time_index))
    /\ PolicyVerdict(policy, engine.rotation_model,
                     get_current_time(engine, run'.current_time_index),
                     engine.reconstruction_time_interval,
                     run'.prev_points[k], NextPoint(engine, run, k),
                     run'.prev_topology_plate_ids[k],
                     run'.prev_resolved_plate_boundaries[k],
                     run'.curr_topology_plate_ids[k],
                     run'.curr_resolved_plate_boundaries[k]).collision

\* C35: deletedpoints holds the index of a point if and only if the collision
\* policy deactivated that point during the current run: a step adds exactly
\* the indices of the points for which the policy reports a collision and
\* removes none, no index is listed twice, every listed point is inactive and
\* has been activated, and begin_reconstruction empties the list.
ConsumedList ==
    /\ [](run.begun =>
            /\ \A m, n \in DOMAIN run.deletedpoints :
                    run.deletedpoints[m] = run.deletedpoints[n] => m = n
            /\ \A m \in DOMAIN run.deletedpoints :
                    /\ run.deletedpoints[m] \in 1..engine.num_points
                    /\ run.curr_points[run.deletedpoints[m]] = NoPoint
                    /\ run.point_has_been_activated[run.deletedpoints[m]])
    /\ [][/\ (engine.phase \in {"constructed", "done"} /\ run'.begun /\ run' # run)
                => run'.deletedpoints = << >>
          /\ (engine.phase = "running" /\ engine'.phase = "running"
                    /\ run'.current_time_index # run.current_time_index) =>
                \A k \in 1..engine.num_points :
                    /\ k \in Range(run.deletedpoints) => k \in Range(run'.deletedpoints)
                    /\ NewlyConsumed(k) <=> PolicyCollides(k)]_vars

\* begin_reconstruction has been called again on an engine whose run before
\* consumed the point: the list is empty and the point is active again.
ConsumedListEmptiedByBegin ==
    /\ engine.phase = "running"
    /\ run.current_time_index = 0
    /\ run.deletedpoints = << >>
    /\ run.curr_points[1] # NoPoint
    /\ call.made
    /\ call.collision
    /\ <<args, << >> >> \in history


----------------------------------------------------------------------------
(* Claims about a step that fails *)

\* C36: when the topology resolver or the collision policy raises during
\* reconstruct_to_next_time, the time index, the current positions and the
\* current plate IDs and boundaries are the ones before the step.
StepAtomicUnderFailure ==
    [][(/\ engine.phase = "running"
        /\ engine'.phase = "failed"
        /\ RotationFailure(engine, run) = 0) =>
            /\ run'.current_time_index = run.current_time_index
            /\ run'.curr_points = run.curr_points
            /\ run'.curr_topology_plate_ids = run.curr_topology_plate_ids
            /\ run'.curr_resolved_plate_boundaries = run.curr_resolved_plate_boundaries]_vars

====
